---------------------------- MODULE Spec2Model ----------------------------
(***************************************************************************)
(* A model of UCacheBox (src/CacheBox/CacheBox.h, src/CacheBox/CacheBox.cpp)*)
(* the registry that records created and loaded objects and tears them     *)
(* down together.                                                          *)
(*                                                                         *)
(* The registry runs in one owner context: a call is one atomic action,    *)
(* except the destruction paths, which are split at the points where their *)
(* type-specific teardown hands control to code outside the registry       *)
(* (RemoveFromParent, Actor->Destroy, ConditionalBeginDestroy run user     *)
(* callbacks), because that code may call back into the registry.          *)
(* `stack` holds the position of every such call in progress.              *)
(*                                                                         *)
(* Engine behaviour the source relies on:                                  *)
(*  - UObject::ConditionalBeginDestroy runs BeginDestroy once, sets the    *)
(*    begin-destroyed flag and returns true; a later call returns false.   *)
(*  - A weak object pointer (BindWeakLambda, TWeakObjectPtr, IsValid)      *)
(*    stays valid on a begin-destroyed object; it becomes invalid when the *)
(*    object is marked as garbage or reclaimed by the garbage collector.   *)
(***************************************************************************)
EXTENDS Naturals, Sequences, FiniteSets

\* Created objects are numbered 1..MaxCreated; 0 is the null handle.
MaxCreated == 2
\* Asset paths are numbered 1..MaxAssets; NullPath is the empty path.
MaxAssets == 2
\* Async requests are numbered 1..MaxRequests.
MaxRequests == 2
\* Teardowns recorded per object (a third one is not recorded).
TeardownCap == 2
\* Registry calls nested inside a running teardown.
MaxReentry == 1
\* Entries of a batch passed to a batch load.
MaxBatch == 2

\* Created objects and async requests in the behaviours that mix every
\* operation on created objects with every operation on loaded ones.
MaxMixedCreated == 1
MaxMixedRequests == 1

NullPath == 0
NullHandle == 0
None == [none |-> TRUE]

ObjectIds == 1..MaxCreated
Paths == 1..MaxAssets
RequestIds == 1..MaxRequests

VARIABLES
    boxState,           \* "None" (not made yet) | "Alive" | "BeginDestroyed" | "Purged"
    CreatedObjects,     \* TSet<UObject*> CreatedObjects
    LoadedObjects,      \* TSet<UObject*> LoadedObjects
    LoadedSoftObjects,  \* TSet<TSoftObjectPtr<UObject>> LoadedSoftObjects
    LoadedSoftClasses,  \* TSet<TSoftClassPtr<UObject>> LoadedSoftClasses
    objKind,            \* per created object: "None" | "Widget" | "Actor" | "Object"
    handles,            \* the handles the Create* calls have returned to the caller
    objLife,            \* per created object: "Unborn" | "Live" | "BeginDestroyed" | "Garbage"
    teardowns,          \* per created object: the teardowns executed on it, in order
    requests,           \* per async request: its state, paths and callback count
    stack,              \* the destruction calls in progress, innermost last
    component,          \* the UCacheBoxComponent that owns the registry, if one does
    ret                 \* the call that returned in the last step

vars == <<boxState, CreatedObjects, LoadedObjects, LoadedSoftObjects,
          LoadedSoftClasses, objKind, handles, objLife, teardowns, requests,
          stack, component, ret>>

loadedSets == <<LoadedObjects, LoadedSoftObjects, LoadedSoftClasses>>
createdVars == <<CreatedObjects, objKind, handles, objLife, teardowns>>

----------------------------------------------------------------------------
(* Soft references and the objects they resolve to.                        *)

\* FSoftObjectPath::ResolveObject / TSoftObjectPtr::Get: the object at a path.
ResolveObject(p) == [asset |-> p]

\* TSoftObjectPtr(UObject*): the soft reference that names an object.
SoftPtrOf(o) == o.asset

\* TSoftObjectPtr::IsNull
IsNull(p) == p = NullPath

NoRet == [op |-> "None", res |-> None, arg |-> None]

NoRequest == [state |-> "Unused", kind |-> "None", paths |-> <<>>, fired |-> 0]

\* No UCacheBoxComponent: the registry was constructed by its owner.
NoComponent == [play |-> "None", CacheBox |-> NullHandle, made |-> 0, destroyed |-> 0]

Init ==
    /\ boxState = "Alive"
    /\ component = NoComponent
    /\ CreatedObjects = {}
    /\ LoadedObjects = {}
    /\ LoadedSoftObjects = {}
    /\ LoadedSoftClasses = {}
    /\ objKind = [x \in ObjectIds |-> "None"]
    /\ handles = {}
    /\ objLife = [x \in ObjectIds |-> "Unborn"]
    /\ teardowns = [x \in ObjectIds |-> <<>>]
    /\ requests = [r \in RequestIds |-> NoRequest]
    /\ stack = <<>>
    /\ ret = NoRet

\* A caller may start a registry call: nothing is in progress and the
\* registry has not been destroyed.
Idle == stack = <<>> /\ boxState = "Alive"

----------------------------------------------------------------------------
(* Synchronous load.                                                       *)

\* LoadSynchronous(TSoftObjectPtr<T>): `loaded` is whether
\* Cast<T>(SoftObject.LoadSynchronous()) yields an object.
LoadSynchronousObject(p, loaded) ==
    /\ Idle
    /\ IF ~IsNull(p) /\ loaded
       THEN /\ LoadedSoftObjects' = LoadedSoftObjects \cup {SoftPtrOf(ResolveObject(p))}
            /\ LoadedObjects' = LoadedObjects \cup {ResolveObject(p)}
            /\ UNCHANGED LoadedSoftClasses
            /\ ret' = [op |-> "LoadSynchronousObject", res |-> ResolveObject(p), arg |-> None]
       ELSE /\ UNCHANGED loadedSets
            /\ ret' = [op |-> "LoadSynchronousObject", res |-> None, arg |-> None]
    /\ UNCHANGED <<component, boxState, createdVars, requests, stack>>

\* A class load that records the class before checking IsChildOf.
LoadSynchronousClass_NoTypeCheck(p, loaded, childOf) ==
    /\ Idle
    /\ IF ~IsNull(p) /\ loaded
       THEN /\ LoadedSoftClasses' = LoadedSoftClasses \cup {SoftPtrOf(ResolveObject(p))}
            /\ LoadedObjects' = LoadedObjects \cup {ResolveObject(p)}
            /\ UNCHANGED LoadedSoftObjects
            /\ ret' = [op |-> "LoadSynchronousClass",
                       res |-> IF childOf THEN ResolveObject(p) ELSE None,
                       arg |-> None]
       ELSE /\ UNCHANGED loadedSets
            /\ ret' = [op |-> "LoadSynchronousClass", res |-> None, arg |-> None]
    /\ UNCHANGED <<component, boxState, createdVars, requests, stack>>

\* LoadSynchronous(TSoftClassPtr<T>): `loaded` is whether
\* SoftClass.LoadSynchronous() yields a class, `childOf` whether that class
\* IsChildOf(T::StaticClass()).
LoadSynchronousClass(p, loaded, childOf) ==
    /\ Idle
    /\ IF ~IsNull(p) /\ loaded /\ childOf
       THEN /\ LoadedSoftClasses' = LoadedSoftClasses \cup {SoftPtrOf(ResolveObject(p))}
            /\ LoadedObjects' = LoadedObjects \cup {ResolveObject(p)}
            /\ UNCHANGED LoadedSoftObjects
            /\ ret' = [op |-> "LoadSynchronousClass", res |-> ResolveObject(p), arg |-> None]
       ELSE /\ UNCHANGED loadedSets
            /\ ret' = [op |-> "LoadSynchronousClass", res |-> None, arg |-> None]
    /\ UNCHANGED <<component, boxState, createdVars, requests, stack>>

----------------------------------------------------------------------------
(* Asynchronous load.                                                      *)

\* A filter that keeps the null entries.
FilterNull_KeepsNull(batch) == batch

RECURSIVE FilterNull(_)
\* The loop that copies the non-null entries of a batch into the working
\* array of paths (SoftObjectPathTemp / SoftClassPathTemp).
FilterNull(batch) ==
    IF batch = <<>> THEN <<>>
    ELSE IF IsNull(Head(batch)) THEN FilterNull(Tail(batch))
    ELSE <<Head(batch)>> \o FilterNull(Tail(batch))

Range(s) == {s[i] : i \in DOMAIN s}

\* The batches a caller can pass: arrays of at most MaxBatch soft references.
Batches == UNION {[1..n -> Paths \cup {NullPath}] : n \in 0..MaxBatch}

\* How many entries of a batch are soft references to something, and how
\* many are null.
Entries(batch) ==
    [valid |-> Cardinality({i \in DOMAIN batch : batch[i] # NullPath}),
     null |-> Cardinality({i \in DOMAIN batch : batch[i] = NullPath})]

\* A batch loop that stops at the first null entry.
BatchLoaded_StopsAtNull(batch, resolvable) ==
    LET firstNull == {i \in DOMAIN batch : IsNull(batch[i])}
    IN {batch[i] : i \in {j \in DOMAIN batch :
                              /\ \A k \in firstNull : j < k
                              /\ batch[j] \in resolvable}}

\* A batch loop that stops at the first entry that fails to load.
BatchLoaded_StopsAtFailure(batch, resolvable) ==
    LET failing == {i \in DOMAIN batch : ~IsNull(batch[i]) /\ batch[i] \notin resolvable}
    IN {batch[i] : i \in {j \in DOMAIN batch :
                              /\ \A k \in failing : j < k
                              /\ ~IsNull(batch[j])}}

RECURSIVE BatchLoaded(_, _)
\* The loop of the batch LoadSynchronous: the entries, taken in order, for
\* which the single-reference LoadSynchronous is called and yields an
\* object; `resolvable` are the paths SoftObject.LoadSynchronous() resolves.
\* A null entry is passed over (continue), a failing one changes nothing.
BatchLoaded(batch, resolvable) ==
    IF batch = <<>> THEN {}
    ELSE IF IsNull(Head(batch)) THEN BatchLoaded(Tail(batch), resolvable)
    ELSE IF Head(batch) \in resolvable
    THEN {Head(batch)} \cup BatchLoaded(Tail(batch), resolvable)
    ELSE BatchLoaded(Tail(batch), resolvable)

\* LoadSynchronous(const TArray<TSoftObjectPtr<UObject>>&) and
\* LoadSynchronous(const TArray<TSoftClassPtr<UObject>>&): every entry is
\* loaded as UObject, so the type checks of the single forms always pass.
\* The record of the call keeps the entries the Streaming Service resolved,
\* the numbers of entries, and whether the first entry was loaded.
LoadSynchronousBatch(kind, batch, resolvable) ==
    /\ Idle
    /\ resolvable \subseteq Range(batch) \ {NullPath}
    /\ LET got == {ResolveObject(p) : p \in BatchLoaded(batch, resolvable)}
       IN /\ LoadedObjects' = LoadedObjects \cup got
          /\ IF kind = "Objects"
             THEN /\ LoadedSoftObjects' = LoadedSoftObjects \cup {SoftPtrOf(o) : o \in got}
                  /\ UNCHANGED LoadedSoftClasses
             ELSE /\ LoadedSoftClasses' = LoadedSoftClasses \cup {SoftPtrOf(o) : o \in got}
                  /\ UNCHANGED LoadedSoftObjects
    /\ ret' = [op |-> "LoadSynchronous" \o kind, res |-> resolvable, arg |-> Entries(batch),
               lead |-> batch # <<>> /\ Head(batch) \in resolvable]
    /\ UNCHANGED <<component, boxState, createdVars, requests, stack>>

FreeRequests == {r \in RequestIds : requests[r].state = "Unused"}
NextRequest == CHOOSE r \in FreeRequests : \A q \in FreeRequests : r <= q

\* DelegateToCall.ExecuteIfBound() with a bound delegate: one more invocation.
ExecuteIfBound(fired) == fired + 1

\* An else branch that does not invoke the callback.
CompletedImmediately_Silent ==
    [state |-> "Immediate", kind |-> "None", paths |-> <<>>, fired |-> 0]

\* The else branch of RequestAsyncLoad: nothing to load, the callback is
\* invoked before the call returns and no request reaches the service.
CompletedImmediately ==
    [state |-> "Immediate", kind |-> "None", paths |-> <<>>, fired |-> ExecuteIfBound(0)]

\* A submission that invokes the callback without waiting for the service.
Submitted_CallsBack(kind, paths) ==
    [state |-> "Pending", kind |-> kind, paths |-> paths, fired |-> ExecuteIfBound(0)]

\* Streamable.RequestAsyncLoad(paths, Delegate): the request is handed to
\* the Streaming Service with the weakly bound closure.
Submitted(kind, paths) ==
    [state |-> "Pending", kind |-> kind, paths |-> paths, fired |-> 0]

\* RequestAsyncLoad(const TArray<TSoftObjectPtr<UObject>>&, ...) and
\* RequestAsyncLoad(const TArray<TSoftClassPtr<UObject>>&, ...)
RequestAsyncLoadBatch(kind, batch) ==
    /\ Idle
    /\ FreeRequests # {}
    /\ LET working == FilterNull(batch)
           r == NextRequest
       IN /\ requests' = [requests EXCEPT ![r] =
                 IF working # <<>> THEN Submitted(kind, working)
                 ELSE CompletedImmediately]
          /\ ret' = [op |-> "RequestAsyncLoad", res |-> r, arg |-> Entries(batch)]
    /\ UNCHANGED <<component, boxState, createdVars, loadedSets, stack>>

\* RequestAsyncLoad(TSoftObjectPtr<T>, ...) and RequestAsyncLoad(TSoftClassPtr<T>, ...)
RequestAsyncLoadSingle(kind, p) ==
    /\ Idle
    /\ FreeRequests # {}
    /\ LET r == NextRequest
       IN /\ requests' = [requests EXCEPT ![r] =
                 IF ~IsNull(p) THEN Submitted(kind, <<p>>)
                 ELSE CompletedImmediately]
          /\ ret' = [op |-> "RequestAsyncLoad", res |-> r, arg |-> Entries(<<p>>)]
    /\ UNCHANGED <<component, boxState, createdVars, loadedSets, stack>>

\* BindWeakLambda(this, ...): the closure runs only while the weak pointer
\* to the registry is valid, which it is until the registry is reclaimed.
WeakThisValid == boxState # "Purged"

\* A closure whose class forms keep only the classes of their own request.
Closure_ReplacesClasses(sets, kind, ok) ==
    [LoadedObjects |->
        IF kind = "Class" THEN sets.LoadedObjects
        ELSE sets.LoadedObjects \cup {ResolveObject(p) : p \in ok},
     LoadedSoftObjects |->
        IF kind \in {"Object", "Objects"}
        THEN sets.LoadedSoftObjects \cup {SoftPtrOf(ResolveObject(p)) : p \in ok}
        ELSE sets.LoadedSoftObjects,
     LoadedSoftClasses |->
        IF kind \in {"Class", "Classes"}
        THEN {SoftPtrOf(ResolveObject(p)) : p \in ok}
        ELSE sets.LoadedSoftClasses]

\* The closure of a request of `kind`, run on a registry whose loaded sets
\* are `sets`: the Emplace calls of the four lambdas, `ok` being the paths
\* whose object the closure obtained (resolved, and of the requested type
\* in the single-reference forms). The single class-reference form does
\* not touch LoadedObjects.
Closure(sets, kind, ok) ==
    [LoadedObjects |->
        IF kind = "Class" THEN sets.LoadedObjects
        ELSE sets.LoadedObjects \cup {ResolveObject(p) : p \in ok},
     LoadedSoftObjects |->
        IF kind \in {"Object", "Objects"}
        THEN sets.LoadedSoftObjects \cup {SoftPtrOf(ResolveObject(p)) : p \in ok}
        ELSE sets.LoadedSoftObjects,
     LoadedSoftClasses |->
        IF kind \in {"Class", "Classes"}
        THEN sets.LoadedSoftClasses \cup {SoftPtrOf(ResolveObject(p)) : p \in ok}
        ELSE sets.LoadedSoftClasses]

\* The loaded sets the registry holds now.
CurrentLoaded ==
    [LoadedObjects |-> LoadedObjects, LoadedSoftObjects |-> LoadedSoftObjects,
     LoadedSoftClasses |-> LoadedSoftClasses]

\* The sets after the closure of a request of `kind` has run on the
\* registry.
ClosureLoadedObjects(kind, ok) == Closure(CurrentLoaded, kind, ok).LoadedObjects

ClosureLoadedSoftObjects(kind, ok) == Closure(CurrentLoaded, kind, ok).LoadedSoftObjects

ClosureLoadedSoftClasses(kind, ok) == Closure(CurrentLoaded, kind, ok).LoadedSoftClasses

\* The Streaming Service signals the completion of request r; `ok` are the
\* paths that resolved. The delegate runs the closure if its weak binding
\* is still valid and is dropped otherwise.
AsyncComplete(r, ok) ==
    /\ stack = <<>>
    /\ requests[r].state = "Pending"
    /\ ok \subseteq Range(requests[r].paths)
    /\ IF WeakThisValid
       THEN /\ LoadedObjects' = ClosureLoadedObjects(requests[r].kind, ok)
            /\ LoadedSoftObjects' = ClosureLoadedSoftObjects(requests[r].kind, ok)
            /\ LoadedSoftClasses' = ClosureLoadedSoftClasses(requests[r].kind, ok)
            /\ requests' = [requests EXCEPT ![r] =
                   [state |-> "Delivered", kind |-> "None", paths |-> <<>>,
                    fired |-> ExecuteIfBound(@.fired)]]
            /\ ret' = [op |-> "AsyncComplete", res |-> ok, arg |-> requests[r].kind]
       ELSE /\ UNCHANGED loadedSets
            /\ requests' = [requests EXCEPT ![r] =
                   [state |-> "Dropped", kind |-> "None", paths |-> <<>>,
                    fired |-> @.fired]]
            /\ ret' = [op |-> "AsyncDropped", res |-> {}, arg |-> requests[r].kind]
    /\ UNCHANGED <<component, boxState, createdVars, stack>>

----------------------------------------------------------------------------
(* Unload.                                                                 *)

\* The record of an unload call that returned: `again` says that the call
\* before it was the same operation on the same reference.
Unloaded(op, p, valid) ==
    [op |-> op, res |-> valid, arg |-> p, again |-> ret.op = op /\ ret.arg = p]

\* An UnloadObject that treats a reference whose object it does not hold as
\* a class reference.
UnloadObject_FallsBackToClass(p, valid) ==
    /\ Idle
    /\ IsNull(p) => ~valid
    /\ (~IsNull(p) /\ ResolveObject(p) \in LoadedObjects) => valid
    /\ IF valid /\ ResolveObject(p) \in LoadedObjects
       THEN /\ LoadedObjects' = LoadedObjects \ {ResolveObject(p)}
            /\ LoadedSoftObjects' = LoadedSoftObjects \ {p}
            /\ UNCHANGED LoadedSoftClasses
       ELSE /\ LoadedSoftClasses' = LoadedSoftClasses \ {p}
            /\ UNCHANGED <<LoadedObjects, LoadedSoftObjects>>
    /\ ret' = Unloaded("UnloadObject", p, valid)
    /\ UNCHANGED <<component, boxState, createdVars, requests, stack>>

\* UnloadObject(TSoftObjectPtr<UObject>): `valid` is InObject.IsValid(), true
\* whenever the registry itself keeps the object loaded.
UnloadObject(p, valid) ==
    /\ Idle
    /\ IsNull(p) => ~valid
    /\ (~IsNull(p) /\ ResolveObject(p) \in LoadedObjects) => valid
    /\ IF valid
       THEN /\ LoadedObjects' = LoadedObjects \ {ResolveObject(p)}
            /\ LoadedSoftObjects' = LoadedSoftObjects \ {p}
            /\ UNCHANGED LoadedSoftClasses
       ELSE UNCHANGED loadedSets
    /\ ret' = Unloaded("UnloadObject", p, valid)
    /\ UNCHANGED <<component, boxState, createdVars, requests, stack>>

\* UnloadClass(TSoftClassPtr<UObject>)
UnloadClass(p, valid) ==
    /\ Idle
    /\ IsNull(p) => ~valid
    /\ (~IsNull(p) /\ ResolveObject(p) \in LoadedObjects) => valid
    /\ IF valid
       THEN /\ LoadedSoftClasses' = LoadedSoftClasses \ {p}
            /\ UNCHANGED <<LoadedObjects, LoadedSoftObjects>>
       ELSE UNCHANGED loadedSets
    /\ ret' = Unloaded("UnloadClass", p, valid)
    /\ UNCHANGED <<component, boxState, createdVars, requests, stack>>

\* An UnloadAllObjects that forgets the class references.
UnloadAllObjects_KeepsClasses ==
    /\ Idle
    /\ LoadedObjects' = {}
    /\ LoadedSoftObjects' = {}
    /\ UNCHANGED LoadedSoftClasses
    /\ ret' = [op |-> "UnloadAllObjects", res |-> None, arg |-> Cardinality(LoadedObjects)]
    /\ UNCHANGED <<component, boxState, createdVars, requests, stack>>

\* UnloadAllObjects(): the Reset calls act on copies of the set elements;
\* the three sets are emptied. The record of the call keeps how many
\* objects were held.
UnloadAllObjects ==
    /\ Idle
    /\ LoadedObjects' = {}
    /\ LoadedSoftObjects' = {}
    /\ LoadedSoftClasses' = {}
    /\ ret' = [op |-> "UnloadAllObjects", res |-> None, arg |-> Cardinality(LoadedObjects)]
    /\ UNCHANGED <<component, boxState, createdVars, requests, stack>>

----------------------------------------------------------------------------
(* Creation.                                                               *)

Unborn == {x \in ObjectIds : objLife[x] = "Unborn"}
NewObject == CHOOSE x \in Unborn : \A y \in Unborn : x <= y

\* An instantiation that never records the object.
Instantiate_NeverTracked(kind, tracked) ==
    /\ objKind' = [objKind EXCEPT ![NewObject] = kind]
    /\ objLife' = [objLife EXCEPT ![NewObject] = "Live"]
    /\ handles' = IF tracked THEN handles \cup {NewObject} ELSE handles
    /\ UNCHANGED <<CreatedObjects, teardowns>>

\* An instantiation that records the object whether or not the caller is
\* given its handle.
Instantiate_AlwaysTracked(kind, tracked) ==
    /\ objKind' = [objKind EXCEPT ![NewObject] = kind]
    /\ objLife' = [objLife EXCEPT ![NewObject] = "Live"]
    /\ CreatedObjects' = CreatedObjects \cup {NewObject}
    /\ handles' = IF tracked THEN handles \cup {NewObject} ELSE handles
    /\ UNCHANGED teardowns

\* The Create* operations.
CreateOps == {"CreateObject", "CreateMaterialInstanceDynamic", "CreateWidget", "CreateActor"}

\* The record of a Create* call that returned: `retry` says that the call
\* before it was a Create* call that failed.
Created(op, res, arg) ==
    [op |-> op, res |-> res, arg |-> arg,
     retry |-> ret.op \in CreateOps /\ ret.res = NullHandle]

\* The object NewObject is instantiated with `kind` and, if `tracked`,
\* recorded by CreatedObjects.Emplace and returned to the caller.
Instantiate(kind, tracked) ==
    /\ objKind' = [objKind EXCEPT ![NewObject] = kind]
    /\ objLife' = [objLife EXCEPT ![NewObject] = "Live"]
    /\ CreatedObjects' = IF tracked THEN CreatedObjects \cup {NewObject} ELSE CreatedObjects
    /\ handles' = IF tracked THEN handles \cup {NewObject} ELSE handles
    /\ UNCHANGED teardowns

\* CreateObject<T>(ObjectClass) and CreateMaterialInstanceDynamic(Parent, Outer):
\* `classValid` is IsValid(ObjectClass) (true for a material), `created`
\* whether NewObject / UMaterialInstanceDynamic::Create yields an object.
CreateObject(op, classValid, created) ==
    /\ Idle
    /\ op = "CreateMaterialInstanceDynamic" => classValid
    /\ IF classValid /\ created
       THEN /\ Unborn # {}
            /\ Instantiate("Object", TRUE)
            /\ ret' = Created(op, NewObject, None)
       ELSE /\ UNCHANGED createdVars
            /\ ret' = Created(op, NullHandle, None)
    /\ UNCHANGED <<component, boxState, loadedSets, requests, stack>>

\* CreateWidget<WidgetT>(UserWidgetClass): `world` is Utils::Common::GetWorld(),
\* `created` whether CreateWidget<WidgetT>(World, Class) yields a widget.
CreateWidget(classValid, world, created) ==
    /\ Idle
    /\ IF classValid /\ world /\ created
       THEN /\ Unborn # {}
            /\ Instantiate("Widget", TRUE)
            /\ ret' = Created("CreateWidget", NewObject, None)
       ELSE /\ UNCHANGED createdVars
            /\ ret' = Created("CreateWidget", NullHandle, None)
    /\ UNCHANGED <<component, boxState, loadedSets, requests, stack>>

\* CreateActor<T>(InClass): `spawned` is whether World->SpawnActor yields an
\* actor, `casts` whether Cast<T>(Actor) succeeds. An actor that spawned
\* but does not cast stays in the world, unrecorded.
CreateActor(classValid, world, spawned, casts) ==
    /\ Idle
    /\ IF classValid /\ world /\ spawned
       THEN /\ Unborn # {}
            /\ Instantiate("Actor", casts)
            /\ ret' = Created("CreateActor", IF casts THEN NewObject ELSE NullHandle,
                              NewObject)
       ELSE /\ UNCHANGED createdVars
            /\ ret' = Created("CreateActor", NullHandle, NullHandle)
    /\ UNCHANGED <<component, boxState, loadedSets, requests, stack>>

----------------------------------------------------------------------------
(* Destruction.                                                            *)

\* IsValid(Object) / TWeakObjectPtr::IsValid: the object exists and is not
\* marked as garbage.
IsValidObject(x) == x # NullHandle /\ objLife[x] \in {"Live", "BeginDestroyed"}

\* TWeakObjectPtr::Get: the object, or null when the pointer is not valid.
WeakGet(x) == IF IsValidObject(x) THEN x ELSE NullHandle

\* A dispatch in which bPure is tested before the type of the object.
DestroyObjectTeardown_FlagFirst(x, bPure) ==
    IF bPure THEN "ConditionalBeginDestroy"
    ELSE IF objKind[x] = "Widget" THEN "RemoveFromParent"
    ELSE IF objKind[x] = "Actor" THEN "Destroy"
    ELSE "MarkAsGarbage"

\* The teardown DestroyObject applies to a valid object: the chain of
\* Cast<UUserWidget>, Cast<AActor>, bPure.
DestroyObjectTeardown(x, bPure) ==
    IF objKind[x] = "Widget" THEN "RemoveFromParent"
    ELSE IF objKind[x] = "Actor" THEN "Destroy"
    ELSE IF bPure THEN "ConditionalBeginDestroy"
    ELSE "MarkAsGarbage"

\* The teardown DestroyAllObjects applies to a valid member.
DestroyAllTeardown(x) ==
    IF objKind[x] = "Widget" THEN "RemoveFromParent"
    ELSE IF objKind[x] = "Actor" THEN "Destroy"
    ELSE "ConditionalBeginDestroy"

\* What a teardown leaves of the object: a widget is only detached, an
\* actor destroyed by its world and an object marked as garbage are no
\* longer valid, an object whose destruction has begun still is.
LifeAfter(how, life) ==
    IF how = "RemoveFromParent" THEN life
    ELSE IF how = "ConditionalBeginDestroy" /\ life # "Garbage" THEN "BeginDestroyed"
    ELSE "Garbage"

\* The record of one more teardown of x.
Executed(x, how) ==
    [teardowns EXCEPT ![x] = IF Len(@) < TeardownCap THEN Append(@, how) ELSE @]

Frame(op, obj, how, todo, rest, snap) ==
    [op |-> op, obj |-> obj, how |-> how, todo |-> todo, rest |-> rest, snap |-> snap]

Top == stack[Len(stack)]
Pop == SubSeq(stack, 1, Len(stack) - 1)
ReplaceTop(f) == [stack EXCEPT ![Len(stack)] = f]

\* A teardown is running: control is in code outside the registry, which
\* may call the registry again.
InTeardown == stack # <<>> /\ Top.obj # NullHandle

\* Registry calls made from inside a running teardown.
Reentries == Cardinality({i \in 2..Len(stack) : stack[i].op = "DestroyObject"})

\* DestroyObject(InObject, bPure), called by the owner or from inside a
\* running teardown: the object is removed from CreatedObjects, then its
\* teardown starts. MarkAsGarbage runs no code outside the registry and
\* is done within the step.
DestroyObject(x, bPure) ==
    /\ \/ Idle
       \/ InTeardown /\ Reentries < MaxReentry
    /\ x # NullHandle => objLife[x] # "Unborn"
    /\ CreatedObjects' = CreatedObjects \ {WeakGet(x)}
    /\ IF IsValidObject(x)
       THEN LET how == DestroyObjectTeardown(x, bPure)
            IN /\ teardowns' = Executed(x, how)
               /\ IF how = "MarkAsGarbage"
                  THEN /\ objLife' = [objLife EXCEPT ![x] = LifeAfter(how, @)]
                       /\ UNCHANGED stack
                       /\ ret' = IF stack = <<>>
                                 THEN [op |-> "DestroyObject", res |-> how, arg |-> x,
                                       pure |-> bPure]
                                 ELSE ret
                  ELSE /\ stack' = Append(stack, Frame("DestroyObject", x, how, {}, <<>>, bPure))
                       /\ ret' = IF stack = <<>> THEN NoRet ELSE ret
                       /\ UNCHANGED objLife
       ELSE /\ UNCHANGED <<teardowns, objLife, stack>>
            /\ ret' = IF stack = <<>>
                      THEN [op |-> "DestroyObject", res |-> "None", arg |-> x,
                            pure |-> bPure]
                      ELSE ret
    /\ UNCHANGED <<component, boxState, objKind, handles, loadedSets, requests>>

\* The running teardown returns to the registry call that started it:
\* DestroyObject returns, DestroyAllObjects goes on with its loop.
TeardownReturn ==
    /\ InTeardown
    /\ objLife' = [objLife EXCEPT ![Top.obj] = LifeAfter(Top.how, @)]
    /\ IF Top.op = "DestroyObject"
       THEN /\ stack' = Pop
            /\ ret' = IF Len(stack) = 1
                      THEN [op |-> "DestroyObject", res |-> Top.how, arg |-> Top.obj,
                            pure |-> Top.snap]
                      ELSE ret
       ELSE /\ stack' = ReplaceTop([Top EXCEPT !.obj = NullHandle, !.how = "None"])
            /\ UNCHANGED ret
    /\ UNCHANGED <<component, boxState, CreatedObjects, objKind, handles, teardowns,
                   loadedSets, requests>>

\* The members of CreatedObjects that are valid objects.
LiveMembers == {x \in CreatedObjects : IsValidObject(x)}

\* DestroyAllObjects() is entered: the loop will visit CreatedObjects.
DestroyAllFrame ==
    Frame("DestroyAllObjects", NullHandle, "None", CreatedObjects, <<>>, LiveMembers)

\* DestroyAllObjects(), called by the owner.
DestroyAllObjects ==
    /\ Idle
    /\ stack' = Append(stack, DestroyAllFrame)
    /\ ret' = NoRet
    /\ UNCHANGED <<component, boxState, createdVars, loadedSets, requests>>

\* The members the loop of DestroyAllObjects has still to visit: a member
\* removed by a nested call is not visited.
ToVisit == Top.todo \cap CreatedObjects

\* One iteration of the loop of DestroyAllObjects: a valid member gets its
\* teardown while it is still in CreatedObjects, another is passed over.
DestroyAllStep ==
    /\ stack # <<>>
    /\ Top.op = "DestroyAllObjects"
    /\ Top.obj = NullHandle
    /\ \E x \in ToVisit :
          IF IsValidObject(x)
          THEN /\ teardowns' = Executed(x, DestroyAllTeardown(x))
               /\ stack' = ReplaceTop([Top EXCEPT !.obj = x, !.how = DestroyAllTeardown(x),
                                                  !.todo = @ \ {x}])
          ELSE /\ stack' = ReplaceTop([Top EXCEPT !.todo = @ \ {x}])
               /\ UNCHANGED teardowns
    /\ UNCHANGED <<component, boxState, CreatedObjects, objKind, handles, objLife,
                   loadedSets, requests, ret>>

\* A DestroyAllObjects that empties the loaded sets with CreatedObjects.
DestroyAllReturn_Unloads ==
    /\ stack # <<>>
    /\ Top.op = "DestroyAllObjects"
    /\ Top.obj = NullHandle
    /\ ToVisit = {}
    /\ CreatedObjects' = {}
    /\ LoadedObjects' = {}
    /\ LoadedSoftObjects' = {}
    /\ LoadedSoftClasses' = {}
    /\ stack' = Pop
    /\ ret' = IF Len(stack) = 1
              THEN [op |-> "DestroyAllObjects", res |-> None, arg |-> Top.snap]
              ELSE ret
    /\ UNCHANGED <<component, boxState, objKind, handles, objLife, teardowns, requests>>

\* The loop of DestroyAllObjects is over: CreatedObjects.Empty(), and the
\* call returns to the owner or to BeginDestroy.
DestroyAllReturn ==
    /\ stack # <<>>
    /\ Top.op = "DestroyAllObjects"
    /\ Top.obj = NullHandle
    /\ ToVisit = {}
    /\ CreatedObjects' = {}
    /\ stack' = Pop
    /\ ret' = IF Len(stack) = 1
              THEN [op |-> "DestroyAllObjects", res |-> None, arg |-> Top.snap]
              ELSE ret
    /\ UNCHANGED <<component, boxState, objKind, handles, objLife, teardowns, loadedSets, requests>>

\* DestroyObject(InObject, bPure) with a handle to the asset at path p, an
\* object the registry did not create: `valid` is InObject.IsValid(), which
\* the registry does not determine. CreatedObjects holds only objects the
\* Create* calls made, so CreatedObjects.Remove finds nothing; the
\* dispatch runs on a valid handle whether or not the object was a member.
\* An asset is neither a widget nor an actor, and its BeginDestroy is
\* engine code that does not call the registry.
DestroyObjectOfAsset(p, bPure, valid) ==
    /\ Idle
    /\ CreatedObjects' = CreatedObjects
    /\ ret' = [op |-> "DestroyObjectOfAsset",
               res |-> IF ~valid THEN "None"
                       ELSE IF bPure THEN "ConditionalBeginDestroy"
                       ELSE "MarkAsGarbage",
               arg |-> ResolveObject(p), pure |-> bPure]
    /\ UNCHANGED <<component, boxState, objKind, handles, objLife, teardowns,
                   loadedSets, requests, stack>>

\* An actor is destroyed by its world, outside the registry: the registry
\* is left with a member that is no longer valid.
WorldDestroysActor(x) ==
    /\ stack = <<>>
    /\ objKind[x] = "Actor"
    /\ objLife[x] = "Live"
    /\ objLife' = [objLife EXCEPT ![x] = "Garbage"]
    /\ ret' = NoRet
    /\ UNCHANGED <<component, boxState, CreatedObjects, objKind, handles, teardowns,
                   loadedSets, requests, stack>>

----------------------------------------------------------------------------
(* Destruction of the registry.                                            *)

\* A BeginDestroy that unloads before it destroys.
BeginDestroyBody_UnloadFirst == <<"UnloadAllObjects", "DestroyAllObjects">>

\* The body of BeginDestroy(): the calls it makes, in order.
BeginDestroyBody == <<"DestroyAllObjects", "UnloadAllObjects">>

\* DestroyBox(): ConditionalBeginDestroy() runs BeginDestroy() on a
\* registry whose destruction has not begun, and nothing otherwise; the
\* result says which.
DestroyBoxCall ==
    /\ stack = <<>>
    /\ boxState \in {"Alive", "BeginDestroyed"}
    /\ IF boxState = "Alive"
       THEN /\ boxState' = "BeginDestroyed"
            /\ stack' = <<Frame("BeginDestroy", NullHandle, "None", {}, BeginDestroyBody,
                                [live |-> LiveMembers, loaded |-> LoadedObjects,
                                 created |-> None])>>
            /\ ret' = NoRet
       ELSE /\ ret' = [op |-> "DestroyBox", res |-> FALSE, arg |-> None]
            /\ UNCHANGED <<boxState, stack>>
    /\ UNCHANGED <<createdVars, loadedSets, requests>>

\* DestroyBox(), called by the owner of the registry.
DestroyBox ==
    /\ component.play # "Ending"
    /\ DestroyBoxCall
    /\ UNCHANGED component

\* BeginDestroy() makes its next call, or returns to DestroyBox, which
\* returns true.
BeginDestroyStep ==
    /\ stack # <<>>
    /\ Top.op = "BeginDestroy"
    /\ IF Top.rest = <<>>
       THEN /\ stack' = Pop
            /\ ret' = [op |-> "DestroyBox", res |-> TRUE, arg |-> Top.snap]
            /\ UNCHANGED <<createdVars, loadedSets>>
       ELSE IF Head(Top.rest) = "DestroyAllObjects"
       THEN /\ stack' = Append(ReplaceTop([Top EXCEPT !.rest = Tail(@)]), DestroyAllFrame)
            /\ UNCHANGED <<createdVars, loadedSets, ret>>
       ELSE /\ LoadedObjects' = {}
            /\ LoadedSoftObjects' = {}
            /\ LoadedSoftClasses' = {}
            /\ stack' = ReplaceTop([Top EXCEPT !.rest = Tail(@),
                                               !.snap.created = CreatedObjects])
            /\ UNCHANGED <<createdVars, ret>>
    /\ UNCHANGED <<component, boxState, requests>>

\* The owner has let go of a destroyed registry (CacheBox = nullptr) and
\* the garbage collector reclaims it.
GarbageCollect ==
    /\ stack = <<>>
    /\ component.CacheBox = NullHandle
    /\ boxState = "BeginDestroyed"
    /\ boxState' = "Purged"
    /\ ret' = NoRet
    /\ UNCHANGED <<component, createdVars, loadedSets, requests, stack>>

----------------------------------------------------------------------------
(* UCacheBoxComponent: the component that makes a registry when its host   *)
(* begins play and destroys it when the host ends play. The engine calls   *)
(* BeginPlay once and EndPlay once after it.                               *)

\* A component that has been constructed and has not begun play.
Constructed ==
    [play |-> "Constructed", CacheBox |-> NullHandle, made |-> 0, destroyed |-> 0]

\* The state after the construction of a component: there is no registry.
InitComponent ==
    /\ boxState = "None"
    /\ component = Constructed
    /\ CreatedObjects = {}
    /\ LoadedObjects = {}
    /\ LoadedSoftObjects = {}
    /\ LoadedSoftClasses = {}
    /\ objKind = [x \in ObjectIds |-> "None"]
    /\ handles = {}
    /\ objLife = [x \in ObjectIds |-> "Unborn"]
    /\ teardowns = [x \in ObjectIds |-> <<>>]
    /\ requests = [r \in RequestIds |-> NoRequest]
    /\ stack = <<>>
    /\ ret = NoRet

\* MakeCacheBox(): CacheBox = NewObject<UCacheBox>(this, ...), one more
\* registry, numbered from 1.
MakeCacheBox(c) == [c EXCEPT !.CacheBox = c.made + 1, !.made = c.made + 1]

\* BeginPlay(): MakeCacheBox() constructs the registry.
BeginPlay ==
    /\ component.play = "Constructed"
    /\ component' = [MakeCacheBox(component) EXCEPT !.play = "Playing"]
    /\ boxState' = "Alive"
    /\ ret' = [op |-> "BeginPlay", res |-> None, arg |-> None]
    /\ UNCHANGED <<createdVars, loadedSets, requests, stack>>

\* GetCacheBox(): the pointer the component holds.
GetCacheBox ==
    /\ stack = <<>>
    /\ component.play \in {"Constructed", "Playing", "Ended"}
    /\ ret' = [op |-> "GetCacheBox", res |-> component.CacheBox, arg |-> None]
    /\ UNCHANGED <<component, boxState, createdVars, loadedSets, requests, stack>>

\* IsValid(CacheBox) in DestroyCacheBox.
IsValidCacheBox ==
    component.CacheBox # NullHandle /\ boxState \in {"Alive", "BeginDestroyed"}

\* EndPlay(): DestroyCacheBox() calls DestroyBox() on a valid registry.
EndPlay ==
    /\ component.play = "Playing"
    /\ stack = <<>>
    /\ IF IsValidCacheBox
       THEN /\ DestroyBoxCall
            /\ component' = [component EXCEPT !.play = "Ending", !.destroyed = @ + 1]
       ELSE /\ component' = [component EXCEPT !.play = "Ending"]
            /\ UNCHANGED <<boxState, createdVars, loadedSets, requests, stack, ret>>

\* A DestroyCacheBox that keeps its pointer.
Released_KeepsBox(c) == [c EXCEPT !.play = "Ended"]

\* CacheBox = nullptr, and EndPlay is over.
Released(c) == [c EXCEPT !.CacheBox = NullHandle, !.play = "Ended"]

\* DestroyBox() has returned to DestroyCacheBox(), which lets go of the
\* registry and returns.
EndPlayReturn ==
    /\ component.play = "Ending"
    /\ stack = <<>>
    /\ component' = Released(component)
    /\ ret' = [op |-> "EndPlay", res |-> None, arg |-> None]
    /\ UNCHANGED <<boxState, createdVars, loadedSets, requests, stack>>

----------------------------------------------------------------------------
(* The system: the owner's calls, the Streaming Service's completion       *)
(* signals, the steps of the calls in progress, the world and the garbage  *)
(* collector.                                                              *)

NextSingleLoading ==
    \/ \E p \in Paths \cup {NullPath}, loaded \in BOOLEAN :
          LoadSynchronousObject(p, loaded)
    \/ \E p \in Paths \cup {NullPath}, loaded \in BOOLEAN, childOf \in BOOLEAN :
          LoadSynchronousClass(p, loaded, childOf)

NextUnloading ==
    \/ \E p \in Paths \cup {NullPath}, valid \in BOOLEAN : UnloadObject(p, valid)
    \/ \E p \in Paths \cup {NullPath}, valid \in BOOLEAN : UnloadClass(p, valid)
    \/ UnloadAllObjects

NextSyncLoading == NextSingleLoading \/ NextUnloading

NextBatchLoading ==
    \E kind \in {"Objects", "Classes"}, batch \in Batches :
       \E resolvable \in SUBSET (Range(batch) \ {NullPath}) :
          LoadSynchronousBatch(kind, batch, resolvable)

NextAsyncLoading ==
    \/ \E kind \in {"Objects", "Classes"}, batch \in Batches :
          RequestAsyncLoadBatch(kind, batch)
    \/ \E kind \in {"Object", "Class"}, p \in Paths \cup {NullPath} :
          RequestAsyncLoadSingle(kind, p)
    \/ \E r \in RequestIds, ok \in SUBSET Paths : AsyncComplete(r, ok)

NextCreation ==
    \/ \E op \in {"CreateObject", "CreateMaterialInstanceDynamic"},
          classValid \in BOOLEAN, created \in BOOLEAN :
          CreateObject(op, classValid, created)
    \/ \E classValid \in BOOLEAN, world \in BOOLEAN, created \in BOOLEAN :
          CreateWidget(classValid, world, created)
    \/ \E classValid \in BOOLEAN, world \in BOOLEAN, spawned \in BOOLEAN, casts \in BOOLEAN :
          CreateActor(classValid, world, spawned, casts)
    \/ \E x \in ObjectIds \cup {NullHandle}, bPure \in BOOLEAN : DestroyObject(x, bPure)
    \/ TeardownReturn
    \/ DestroyAllObjects
    \/ DestroyAllStep
    \/ \E x \in ObjectIds : WorldDestroysActor(x)

NextAssetDestruction ==
    \E p \in Paths, bPure \in BOOLEAN, valid \in BOOLEAN : DestroyObjectOfAsset(p, bPure, valid)

NextBox ==
    \/ DestroyBox
    \/ BeginDestroyStep
    \/ DestroyAllReturn
    \/ GarbageCollect

NextComponent ==
    \/ BeginPlay
    \/ GetCacheBox
    \/ EndPlay
    \/ EndPlayReturn

Next ==
    \/ NextComponent
    \/ NextSyncLoading
    \/ NextBatchLoading
    \/ NextAsyncLoading
    \/ NextCreation
    \/ NextAssetDestruction
    \/ NextBox

\* The whole system.
Spec == Init /\ [][Next]_vars

\* The system restricted to groups of operations. A behaviour of any of
\* these is a behaviour of Spec. The loading operations read and write
\* only the loaded sets and the requests, the creation operations only the
\* created objects, so a property of one group is checked with the other
\* group's operations left out.

\* Loading, unloading and the destruction of the registry.
SpecLoading == Init /\ [][NextSyncLoading \/ NextAsyncLoading \/ NextBox]_vars

\* Creation, destruction and the destruction of the registry.
SpecCreation == Init /\ [][NextCreation \/ NextBox]_vars

\* Creation, destruction, synchronous loading, unloading and the
\* destruction of the registry.
SpecTeardown == Init /\ [][NextCreation \/ NextSyncLoading \/ NextBox]_vars

\* Every way of loading, on a live registry.
SpecLoads == Init /\ [][NextSingleLoading \/ NextBatchLoading \/ NextAsyncLoading]_vars

\* Synchronous loading, single and batch, and unloading.
SpecSync == Init /\ [][NextSyncLoading \/ NextBatchLoading]_vars

\* A component, the creation and destruction operations of its registry
\* and the destruction of the registry.
SpecComponent == InitComponent /\ [][NextComponent \/ NextCreation \/ NextBox]_vars

\* Creation, single synchronous loading, and destruction through handles
\* to created objects and to loaded assets.
SpecAssets ==
    Init /\ [][NextCreation \/ NextSingleLoading \/ NextAssetDestruction \/ NextBox]_vars

\* Few objects have been created, and none has been torn down.
FewCreated == Cardinality(ObjectIds \ Unborn) < MaxMixedCreated
CreatedFresh == stack = <<>> /\ \A x \in ObjectIds : teardowns[x] = <<>>

\* Few requests have been made, or none.
FewRequests == Cardinality(RequestIds \ FreeRequests) < MaxMixedRequests
LoadedQuiet == FreeRequests = RequestIds

\* Every operation on created objects and every operation on loaded
\* objects, in the behaviours in which the owner loads and unloads while
\* no created object has been torn down, and creates and destroys while
\* no async request has been made.
NextMixed ==
    \/ CreatedFresh /\ \E p \in Paths \cup {NullPath}, loaded \in BOOLEAN :
          LoadSynchronousObject(p, loaded)
    \/ CreatedFresh /\ \E p \in Paths \cup {NullPath}, loaded \in BOOLEAN, childOf \in BOOLEAN :
          LoadSynchronousClass(p, loaded, childOf)
    \/ CreatedFresh /\ \E kind \in {"Objects", "Classes"}, batch \in Batches :
          \E resolvable \in SUBSET (Range(batch) \ {NullPath}) :
             LoadSynchronousBatch(kind, batch, resolvable)
    \/ CreatedFresh /\ FewRequests /\ \E kind \in {"Objects", "Classes"}, batch \in Batches :
          RequestAsyncLoadBatch(kind, batch)
    \/ CreatedFresh /\ FewRequests /\ \E kind \in {"Object", "Class"}, p \in Paths \cup {NullPath} :
          RequestAsyncLoadSingle(kind, p)
    \/ CreatedFresh /\ \E r \in RequestIds, ok \in SUBSET Paths : AsyncComplete(r, ok)
    \/ CreatedFresh /\ \E p \in Paths \cup {NullPath}, valid \in BOOLEAN : UnloadObject(p, valid)
    \/ CreatedFresh /\ \E p \in Paths \cup {NullPath}, valid \in BOOLEAN : UnloadClass(p, valid)
    \/ CreatedFresh /\ UnloadAllObjects
    \/ LoadedQuiet /\ FewCreated
          /\ \E op \in {"CreateObject", "CreateMaterialInstanceDynamic"},
                classValid \in BOOLEAN, created \in BOOLEAN :
                CreateObject(op, classValid, created)
    \/ LoadedQuiet /\ FewCreated
          /\ \E classValid \in BOOLEAN, world \in BOOLEAN, created \in BOOLEAN :
                CreateWidget(classValid, world, created)
    \/ LoadedQuiet /\ FewCreated
          /\ \E classValid \in BOOLEAN, world \in BOOLEAN, spawned \in BOOLEAN,
                casts \in BOOLEAN :
                CreateActor(classValid, world, spawned, casts)
    \/ LoadedQuiet /\ \E x \in ObjectIds \cup {NullHandle}, bPure \in BOOLEAN :
          DestroyObject(x, bPure)
    \/ LoadedQuiet /\ \E p \in Paths, bPure \in BOOLEAN, valid \in BOOLEAN :
          DestroyObjectOfAsset(p, bPure, valid)
    \/ LoadedQuiet /\ TeardownReturn
    \/ LoadedQuiet /\ DestroyAllObjects
    \/ LoadedQuiet /\ DestroyAllStep
    \/ LoadedQuiet /\ DestroyAllReturn
    \/ LoadedQuiet /\ \E x \in ObjectIds : WorldDestroysActor(x)

SpecMixed == Init /\ [][NextMixed]_vars

----------------------------------------------------------------------------
(* Properties.                                                             *)

Completed(r) == requests[r].state \in {"Immediate", "Delivered", "Dropped"}

\* C1 (as claimed): the callback of every RequestAsyncLoad call is invoked
\* exactly once: never more than once, and once as soon as the call has
\* returned with nothing to load or the Streaming Service has signalled
\* the completion of its request.
C1_CallbackExactlyOnce ==
    \A r \in RequestIds :
        /\ requests[r].fired <= 1
        /\ Completed(r) => requests[r].fired = 1

\* C1 (amended): the callback of every RequestAsyncLoad call is invoked at
\* most once; it has been invoked exactly once when the call returned with
\* nothing to load and when the completion was signalled to a registry the
\* garbage collector had not reclaimed; a completion signalled after the
\* registry was reclaimed is dropped and the callback is never invoked.
C1_CallbackOnceUnlessReclaimed ==
    \A r \in RequestIds :
        /\ requests[r].fired <= 1
        /\ requests[r].state \in {"Immediate", "Delivered"} => requests[r].fired = 1
        /\ requests[r].state \in {"Unused", "Pending"} => requests[r].fired = 0
        /\ requests[r].state = "Dropped" => requests[r].fired = 0 /\ boxState = "Purged"

\* A batch none of whose paths resolved was completed and its callback
\* invoked once.
C1_Witness ==
    /\ ret.op = "AsyncComplete"
    /\ ret.res = {}
    /\ \E r \in RequestIds : requests[r].state = "Delivered" /\ requests[r].fired = 1

\* C2 (as claimed): once DestroyBox has destroyed the registry, the
\* completion signal of a request that was in flight does not run the
\* closure: none of the four sets changes any more.
C2_NoClosureAfterDestroy ==
    [][(boxState # "Alive" /\ stack = <<>>)
         => UNCHANGED <<CreatedObjects, LoadedObjects, LoadedSoftObjects, LoadedSoftClasses>>]_vars

\* C3: a RequestAsyncLoad call none of whose entries is a non-null
\* reference has invoked the callback once when it returns, hands no
\* request to the Streaming Service and leaves the loaded sets as they were.
C3_EmptyBatchCompletesSynchronously ==
    [][(ret'.op = "RequestAsyncLoad" /\ requests[ret'.res].state = "Unused"
            /\ ret'.arg.valid = 0)
         => /\ requests'[ret'.res].fired = 1
            /\ \A q \in RequestIds :
                   requests'[q].state = "Pending" => requests[q].state = "Pending"
            /\ UNCHANGED loadedSets]_vars

\* A batch of null references only was passed while an asset was loaded.
C3_Witness ==
    /\ ret.op = "RequestAsyncLoad"
    /\ ret.arg = [valid |-> 0, null |-> 2]
    /\ requests[ret.res].state = "Immediate"
    /\ LoadedObjects # {}

\* C4: a single-reference LoadSynchronous either returns an object, which
\* is then in LoadedObjects and whose reference is in the soft-reference
\* set of the variant, or returns nothing and leaves LoadedObjects and both
\* soft-reference sets as they were.
C4_LoadSynchronousAllOrNothing ==
    [][(ret'.op \in {"LoadSynchronousObject", "LoadSynchronousClass"})
         => IF ret'.res # None
            THEN /\ ret'.res \in LoadedObjects'
                 /\ ret'.op = "LoadSynchronousObject"
                       => SoftPtrOf(ret'.res) \in LoadedSoftObjects'
                 /\ ret'.op = "LoadSynchronousClass"
                       => SoftPtrOf(ret'.res) \in LoadedSoftClasses'
            ELSE UNCHANGED loadedSets]_vars

\* A class load failed while another asset was loaded.
C4_Witness ==
    /\ ret.op = "LoadSynchronousClass"
    /\ ret.res = None
    /\ LoadedObjects # {}
    /\ LoadedSoftClasses # {}

\* C5 (as claimed): after the closure of a request has run on a live
\* registry, every path of the request that resolved has its object in
\* LoadedObjects and its reference in the soft-reference set of the
\* request's kind.
C5_ResolvedAreLoaded ==
    (ret.op = "AsyncComplete" /\ boxState = "Alive")
        => \A p \in ret.res :
              /\ ResolveObject(p) \in LoadedObjects
              /\ ret.arg \in {"Object", "Objects"} => p \in LoadedSoftObjects
              /\ ret.arg \in {"Class", "Classes"} => p \in LoadedSoftClasses

\* C6 (as claimed): after UnloadObject or UnloadClass of a resolved
\* reference that the registry holds in the soft-reference set of the
\* operation, the object is not in LoadedObjects and the reference is not
\* in that set.
C6_UnloadRemovesBoth ==
    [][(/\ ret'.op \in {"UnloadObject", "UnloadClass"}
        /\ ret'.res = TRUE
        /\ ret'.op = "UnloadObject" => ret'.arg \in LoadedSoftObjects
        /\ ret'.op = "UnloadClass" => ret'.arg \in LoadedSoftClasses)
         => /\ ResolveObject(ret'.arg) \notin LoadedObjects'
            /\ ret'.arg \notin LoadedSoftObjects' \/ ret'.op # "UnloadObject"
            /\ ret'.arg \notin LoadedSoftClasses' \/ ret'.op # "UnloadClass"]_vars

\* C7 (as claimed): while the teardown of an object runs, in any
\* destruction path, the object is no longer in CreatedObjects.
C7_RemovedBeforeTeardown ==
    \A i \in DOMAIN stack :
        stack[i].obj # NullHandle => stack[i].obj \notin CreatedObjects

\* C8 (as claimed): no object has a teardown executed on it more than once.
C8_NoDoubleTeardown ==
    \A x \in ObjectIds : Len(teardowns[x]) <= 1

\* C9 (as claimed): a DestroyBox call on a registry that DestroyBox has
\* already destroyed executes no teardown and leaves the four sets empty.
C9_SecondDestroyBoxLeavesEmpty ==
    [][(ret'.op = "DestroyBox" /\ ret'.res = FALSE)
         => /\ teardowns' = teardowns
            /\ CreatedObjects' = {}
            /\ LoadedObjects' = {}
            /\ LoadedSoftObjects' = {}
            /\ LoadedSoftClasses' = {}]_vars

\* The teardowns of the type of x.
TeardownsOfType(x) ==
    IF objKind[x] = "Widget" THEN {"RemoveFromParent"}
    ELSE IF objKind[x] = "Actor" THEN {"Destroy"}
    ELSE {"ConditionalBeginDestroy", "MarkAsGarbage"}

\* C10: when DestroyBox returns true, its signal that the registry can be
\* released, every member of CreatedObjects that was valid at the call has
\* had a teardown of its type executed, the four sets are empty, and
\* CreatedObjects was already empty when the loaded objects were unloaded.
C10_DestroyBoxTearsDownAll ==
    (ret.op = "DestroyBox" /\ ret.res = TRUE)
        => /\ \A x \in ret.arg.live :
                  \E i \in DOMAIN teardowns[x] : teardowns[x][i] \in TeardownsOfType(x)
           /\ CreatedObjects = {}
           /\ LoadedObjects = {}
           /\ LoadedSoftObjects = {}
           /\ LoadedSoftClasses = {}
           /\ ret.arg.created = {}

\* DestroyBox returned true on a registry that held two valid created
\* objects and a loaded one.
C10_Witness ==
    /\ ret.op = "DestroyBox"
    /\ ret.res = TRUE
    /\ Cardinality(ret.arg.live) = 2
    /\ ret.arg.loaded # {}

\* C11: an UnloadObject call that directly follows an UnloadObject call on
\* the same reference leaves the four sets as the first call left them,
\* and an UnloadObject or UnloadClass call on a reference that is not valid
\* (null, or not resolved to an object) changes none of the four sets.
C11_UnloadIdempotent ==
    [][/\ (ret.op = "UnloadObject" /\ ret'.op = "UnloadObject" /\ ret'.arg = ret.arg)
           => UNCHANGED <<CreatedObjects, loadedSets>>
       /\ (ret'.op \in {"UnloadObject", "UnloadClass"} /\ ret'.res = FALSE)
           => UNCHANGED <<CreatedObjects, loadedSets>>]_vars

\* UnloadObject was called a second time on a reference that is still valid,
\* while the registry holds the class loaded from the same path and
\* another loaded object.
C11_Witness ==
    /\ ret.op = "UnloadObject"
    /\ ret.again
    /\ ret.res = TRUE
    /\ ret.arg \in LoadedSoftClasses
    /\ LoadedObjects # {}

\* C12 (as claimed): when DestroyAllObjects returns, every member of
\* CreatedObjects that was valid at the call has had exactly the teardown
\* DestroyObject(member, true) applies, and nothing else, executed on it,
\* and CreatedObjects is empty; a call that found no valid member runs no
\* teardown.
C12_DestroyAllAsDestroyObject ==
    /\ ret.op = "DestroyAllObjects"
           => /\ \A x \in ret.arg : teardowns[x] = <<DestroyObjectTeardown(x, TRUE)>>
              /\ CreatedObjects = {}
    /\ \A i \in DOMAIN stack :
           (stack[i].op = "DestroyAllObjects" /\ stack[i].snap = {})
               => stack[i].obj = NullHandle

\* C13: when UnloadAllObjects returns, LoadedObjects, LoadedSoftObjects and
\* LoadedSoftClasses are empty, so that the registry holds no soft
\* reference that still names an asset, and CreatedObjects is as it was.
C13_UnloadAllEmptiesLoaded ==
    [][ret'.op = "UnloadAllObjects"
         => /\ LoadedObjects' = {}
            /\ \A p \in LoadedSoftObjects' \cup LoadedSoftClasses' : IsNull(p)
            /\ LoadedSoftObjects' = {}
            /\ LoadedSoftClasses' = {}
            /\ UNCHANGED CreatedObjects]_vars

\* UnloadAllObjects returned on a registry that held two loaded objects and
\* a created object.
C13_Witness ==
    /\ ret.op = "UnloadAllObjects"
    /\ ret.arg = 2
    /\ CreatedObjects # {}
    /\ LoadedObjects = {}

\* C14: in every reachable state no null soft reference is in
\* LoadedSoftObjects or LoadedSoftClasses and the object of no null
\* reference is in LoadedObjects; and a null entry does not keep the other
\* entries of its batch from being loaded: a synchronous batch load leaves
\* every entry that resolved in LoadedObjects, an asynchronous batch
\* submits a request that carries every non-null entry, and its closure
\* puts every one of them that resolved in LoadedObjects.
C14_NullNeverLoaded ==
    /\ [](/\ NullPath \notin LoadedSoftObjects \cup LoadedSoftClasses
          /\ ResolveObject(NullPath) \notin LoadedObjects)
    /\ [][/\ ret'.op \in {"LoadSynchronousObjects", "LoadSynchronousClasses"}
              => \A p \in ret'.res : ResolveObject(p) \in LoadedObjects'
          /\ (ret'.op = "RequestAsyncLoad" /\ requests[ret'.res].state = "Unused"
                  /\ ret'.arg.valid > 0)
              => /\ requests'[ret'.res].state = "Pending"
                 /\ Len(requests'[ret'.res].paths) = ret'.arg.valid
                 /\ NullPath \notin Range(requests'[ret'.res].paths)
          /\ (ret'.op = "AsyncComplete" /\ ret'.arg \in {"Objects", "Classes"})
              => \A p \in ret'.res : ResolveObject(p) \in LoadedObjects']_vars

\* A synchronous batch of a null entry and a reference that resolved was
\* loaded, and the closure of an asynchronous batch of a null entry and a
\* reference has run.
C14_Witness ==
    /\ ret.op \in {"LoadSynchronousObjects", "LoadSynchronousClasses"}
    /\ ret.arg = [valid |-> 1, null |-> 1]
    /\ ret.res # {}
    /\ \A p \in ret.res : ResolveObject(p) \in LoadedObjects
    /\ \E r \in RequestIds : requests[r].state = "Delivered"

\* C15: a RequestAsyncLoad call with v >= 1 non-null entries and any number
\* of null ones submits exactly one request, which carries exactly the v
\* non-null paths, and changes no set; the callback has not been invoked
\* while the request is pending and has been invoked once when the closure
\* has run on the completion signal; the closure of a batch makes
\* LoadedObjects grow by the number of resolved entries that were not
\* members, which is at most v.
C15_BatchOneRequest ==
    /\ [](\A r \in RequestIds : requests[r].state = "Pending" => requests[r].fired = 0)
    /\ [][/\ (ret'.op = "RequestAsyncLoad" /\ requests[ret'.res].state = "Unused"
                  /\ ret'.arg.valid >= 1)
              => /\ requests'[ret'.res].state = "Pending"
                 /\ Len(requests'[ret'.res].paths) = ret'.arg.valid
                 /\ NullPath \notin Range(requests'[ret'.res].paths)
                 /\ \A q \in RequestIds \ {ret'.res} : requests'[q] = requests[q]
                 /\ UNCHANGED loadedSets
          /\ \A r \in RequestIds :
                (requests[r].state = "Pending" /\ requests'[r].state = "Delivered"
                     /\ requests[r].kind \in {"Objects", "Classes"})
                  => /\ requests'[r].fired = 1
                     /\ Cardinality(LoadedObjects') - Cardinality(LoadedObjects)
                           = Cardinality({p \in ret'.res : ResolveObject(p) \notin LoadedObjects})
                     /\ Cardinality(LoadedObjects') - Cardinality(LoadedObjects)
                           <= Len(requests[r].paths)
                     /\ LoadedObjects \subseteq LoadedObjects']_vars

\* A batch of one reference and one null entry was submitted as a request
\* of one path, after the closure of an earlier request had run and its
\* callback had been invoked.
C15_Witness ==
    /\ ret.op = "RequestAsyncLoad"
    /\ ret.arg = [valid |-> 1, null |-> 1]
    /\ requests[ret.res].state = "Pending"
    /\ Len(requests[ret.res].paths) = 1
    /\ \E r \in RequestIds : requests[r].state = "Delivered" /\ requests[r].fired = 1
    /\ LoadedObjects # {}

\* C16: a Create* call that fails returns the null handle and leaves the
\* four sets as they were, and the registry can be used as before: it is
\* live, no call is in progress and a Create* call with a valid class
\* succeeds; a Create* call that returns a handle has added that object,
\* and nothing else, to CreatedObjects and changed no loaded set.
C16_FailedCreateHarmless ==
    /\ []((ret.op \in CreateOps /\ ret.res = NullHandle)
             => /\ Idle
                /\ Unborn # {} => ENABLED CreateObject("CreateObject", TRUE, TRUE))
    /\ [][ret'.op \in CreateOps
             => IF ret'.res = NullHandle
                THEN UNCHANGED <<CreatedObjects, loadedSets>>
                ELSE /\ ret'.res \in CreatedObjects'
                     /\ CreatedObjects' = CreatedObjects \cup {ret'.res}
                     /\ UNCHANGED loadedSets]_vars

\* A Create* call succeeded right after a Create* call that had failed,
\* and its object is recorded.
C16_Witness ==
    /\ ret.op \in CreateOps
    /\ ret.retry
    /\ ret.res # NullHandle
    /\ ret.res \in CreatedObjects

\* The actors that CreateActor spawned and did not return: they exist and
\* the caller was given no handle to them.
Unreturned == {x \in ObjectIds : objLife[x] # "Unborn" /\ x \notin handles}

\* C17: a CreateActor call whose actor spawns and does not cast returns
\* the null handle and leaves the actor live in the world and out of
\* CreatedObjects; such an actor never enters CreatedObjects, and no
\* DestroyAllObjects, no DestroyBox and no DestroyObject on a handle the
\* registry returned executes a teardown on it: a step that does is the
\* start of a DestroyObject call on the actor itself.
C17_UncastActorLeaks ==
    /\ [](\A x \in Unreturned : x \notin CreatedObjects)
    /\ [][/\ (ret'.op = "CreateActor" /\ ret'.res = NullHandle /\ ret'.arg # NullHandle
                  /\ objLife[ret'.arg] = "Unborn")
              => /\ objLife'[ret'.arg] = "Live"
                 /\ objKind'[ret'.arg] = "Actor"
                 /\ ret'.arg \notin CreatedObjects'
                 /\ ret'.arg \notin handles'
          /\ \A x \in Unreturned :
                teardowns'[x] # teardowns[x]
                  => /\ Len(stack') = Len(stack) + 1
                     /\ stack'[Len(stack')].op = "DestroyObject"
                     /\ stack'[Len(stack')].obj = x]_vars

\* DestroyBox returned true after tearing down a created object while an
\* actor that CreateActor spawned and did not return is still live and
\* has had no teardown.
C17_Witness ==
    /\ ret.op = "DestroyBox"
    /\ ret.res = TRUE
    /\ ret.arg.live # {}
    /\ \E x \in Unreturned : objLife[x] = "Live" /\ teardowns[x] = <<>>

\* C18: the component has made no registry before BeginPlay and exactly
\* one from BeginPlay on; while its host plays, the component holds that
\* registry, GetCacheBox returns it and the component has not called
\* DestroyBox; when EndPlay has returned, the component has called
\* DestroyBox exactly once, the registry is destroyed and the component
\* holds no reference to it.
C18_ComponentLifecycle ==
    /\ component.play = "Constructed"
           => component.made = 0 /\ component.CacheBox = NullHandle /\ boxState = "None"
    /\ component.play \in {"Playing", "Ending", "Ended"} => component.made = 1
    /\ component.play = "Playing"
           => /\ component.CacheBox = 1
              /\ component.destroyed = 0
              /\ ret.op = "GetCacheBox" => ret.res = 1
    /\ component.play = "Ending" => component.destroyed = 1 /\ boxState # "Alive"
    /\ component.play = "Ended"
           => /\ component.destroyed = 1
              /\ component.CacheBox = NullHandle
              /\ boxState \in {"BeginDestroyed", "Purged"}

\* EndPlay has returned on a component whose registry had created objects
\* and has torn one down.
C18_Witness ==
    /\ component.play = "Ended"
    /\ ret.op = "EndPlay"
    /\ component.destroyed = 1
    /\ \E x \in ObjectIds : teardowns[x] # <<>>
    /\ CreatedObjects = {}

\* The teardown the dispatch by category prescribes.
Prescribed(kind, immediate) ==
    CASE kind = "Widget" -> "RemoveFromParent"
      [] kind = "Actor" -> "Destroy"
      [] kind = "Object" /\ immediate -> "ConditionalBeginDestroy"
      [] OTHER -> "MarkAsGarbage"

\* The step is an iteration of the loop of DestroyAllObjects.
InDestroyAllLoop ==
    stack # <<>> /\ Top.op = "DestroyAllObjects" /\ Top.obj = NullHandle

\* C19: a DestroyObject call on a handle to a valid object executes one
\* teardown, the one of the object's category: RemoveFromParent on a
\* widget and Destroy on an actor whatever the flag, on another object
\* ConditionalBeginDestroy when bPure is set and MarkAsGarbage when it is
\* not; a widget is never destroyed or marked as garbage and an actor is
\* only destroyed through its world; a DestroyObject call on a handle that
\* is not valid executes no teardown.
C19_DispatchByCategory ==
    /\ [](\A x \in ObjectIds :
            /\ objKind[x] = "Widget"
                  => /\ Range(teardowns[x]) \subseteq {"RemoveFromParent"}
                     /\ objLife[x] = "Live"
            /\ objKind[x] = "Actor" => Range(teardowns[x]) \subseteq {"Destroy"})
    /\ [](\A i \in DOMAIN stack :
            stack[i].op = "DestroyObject"
              => stack[i].how = Prescribed(objKind[stack[i].obj], stack[i].snap))
    /\ [][/\ \A x \in ObjectIds :
                (teardowns'[x] # teardowns[x] /\ ~InDestroyAllLoop)
                  => /\ IsValidObject(x)
                     /\ \E bPure \in BOOLEAN :
                           teardowns'[x] = Append(teardowns[x], Prescribed(objKind[x], bPure))
                     /\ Len(stack') = Len(stack)
                           => /\ objKind[x] = "Object"
                              /\ teardowns'[x] = Append(teardowns[x], "MarkAsGarbage")
                              /\ stack = <<>> => ret'.op = "DestroyObject" /\ ~ret'.pure
          /\ (ret'.op = "DestroyObject" /\ stack = <<>> /\ stack' = <<>>
                  /\ ~IsValidObject(ret'.arg))
                => UNCHANGED <<teardowns, objLife>>
          /\ (ret'.op = "DestroyObject" /\ stack # <<>> /\ stack' = <<>>)
                => /\ ret'.res = Prescribed(objKind[ret'.arg], ret'.pure)
                   /\ UNCHANGED teardowns]_vars

\* DestroyObject with bPure set returned from a widget, which was detached
\* and is still a valid object, after a DestroyObject call had marked
\* another object as garbage.
C19_Witness ==
    /\ ret.op = "DestroyObject"
    /\ ret.res = "RemoveFromParent"
    /\ ret.pure
    /\ objLife[ret.arg] = "Live"
    /\ \E y \in ObjectIds : teardowns[y] = <<"MarkAsGarbage">>

\* C20: a batch LoadSynchronous call leaves in LoadedObjects, and in the
\* soft-reference set of its kind, every non-null entry that the Streaming
\* Service resolves, whether it stands before or after a null entry or an
\* entry that fails to resolve, and adds nothing else.
C20_BatchLoadsEveryResolvable ==
    [][ret'.op \in {"LoadSynchronousObjects", "LoadSynchronousClasses"}
         => /\ LoadedObjects' = LoadedObjects \cup {ResolveObject(p) : p \in ret'.res}
            /\ ret'.op = "LoadSynchronousObjects"
                  => /\ LoadedSoftObjects' = LoadedSoftObjects \cup ret'.res
                     /\ UNCHANGED LoadedSoftClasses
            /\ ret'.op = "LoadSynchronousClasses"
                  => /\ LoadedSoftClasses' = LoadedSoftClasses \cup ret'.res
                     /\ UNCHANGED LoadedSoftObjects]_vars

\* A batch of two references whose first entry failed to resolve was
\* loaded: the second entry is in LoadedObjects, the first is not.
C20_Witness ==
    /\ ret.op \in {"LoadSynchronousObjects", "LoadSynchronousClasses"}
    /\ ret.arg = [valid |-> 2, null |-> 0]
    /\ ~ret.lead
    /\ Cardinality(ret.res) = 1
    /\ \A p \in ret.res : ResolveObject(p) \in LoadedObjects
    /\ Cardinality(LoadedObjects) = 1

\* The objects the soft references the registry holds refer to.
SoftResolved == {ResolveObject(p) : p \in LoadedSoftObjects \cup LoadedSoftClasses}

\* C21 (as claimed): while the registry is live, LoadedObjects is exactly
\* the set of the objects that the members of LoadedSoftObjects and
\* LoadedSoftClasses refer to.
C21_LoadedIsSoftResolved ==
    boxState = "Alive" => LoadedObjects = SoftResolved

\* C22 (as claimed): a teardown is executed only on an object that was a
\* member of CreatedObjects when the destroying call was made, and never
\* on an object that is and stays a member of LoadedObjects.
C22_TeardownOnlyOnCreated ==
    [][/\ \A x \in ObjectIds : teardowns'[x] # teardowns[x] => x \in CreatedObjects
       /\ (ret'.op = "DestroyObjectOfAsset" /\ ret'.res # "None")
             => ~(ret'.arg \in LoadedObjects /\ ret'.arg \in LoadedObjects')]_vars

Pending == {r \in RequestIds : requests[r].state = "Pending"}

\* The loaded sets after the completions of r1 and then of r2 have been
\* delivered, ok1 and ok2 being the paths that resolved.
DeliveredInOrder(r1, ok1, r2, ok2) ==
    Closure(Closure(CurrentLoaded, requests[r1].kind, ok1), requests[r2].kind, ok2)

\* C23: whenever two requests are in flight on a live registry, delivering
\* their completions in one order or the other leaves the same
\* LoadedObjects, LoadedSoftObjects and LoadedSoftClasses; the callback of
\* a request whose completion was delivered has been invoked once and
\* that of a pending one not yet; and the closure of a request only adds
\* members to the three sets and touches no other request.
C23_CompletionOrderIrrelevant ==
    /\ [](boxState = "Alive"
            => \A r1 \in Pending : \A r2 \in Pending \ {r1} :
                  \A ok1 \in SUBSET Range(requests[r1].paths),
                     ok2 \in SUBSET Range(requests[r2].paths) :
                     DeliveredInOrder(r1, ok1, r2, ok2) = DeliveredInOrder(r2, ok2, r1, ok1))
    /\ [](\A r \in RequestIds :
            /\ requests[r].state = "Delivered" => requests[r].fired = 1
            /\ requests[r].state = "Pending" => requests[r].fired = 0)
    /\ [][\A r \in RequestIds :
            (requests[r].state = "Pending" /\ requests'[r].state = "Delivered")
              => /\ LoadedObjects \subseteq LoadedObjects'
                 /\ LoadedSoftObjects \subseteq LoadedSoftObjects'
                 /\ LoadedSoftClasses \subseteq LoadedSoftClasses'
                 /\ CurrentLoaded' = Closure(CurrentLoaded, requests[r].kind, ret'.res)
                 /\ \A q \in RequestIds \ {r} : requests'[q] = requests[q]]_vars

\* The completion of an object request has just been delivered and has
\* added its object while a class request submitted before it is still in
\* flight.
C23_Witness ==
    /\ ret.op = "AsyncComplete"
    /\ ret.arg \in {"Object", "Objects"}
    /\ ret.res # {}
    /\ LoadedSoftObjects # {}
    /\ \E r \in RequestIds : requests[r].state = "Delivered" /\ requests[r].fired = 1
    /\ \E q \in Pending : requests[q].kind \in {"Class", "Classes"}

\* The operations that destroy created objects, and the operations on
\* loaded objects, as the record of a returned call names them.
DestroyOps == {"DestroyObject", "DestroyObjectOfAsset", "DestroyAllObjects"}
LoadedOps ==
    {"LoadSynchronousObject", "LoadSynchronousClass", "LoadSynchronousObjects",
     "LoadSynchronousClasses", "RequestAsyncLoad", "AsyncComplete", "UnloadObject",
     "UnloadClass", "UnloadAllObjects"}

\* A call of DestroyObject or DestroyAllObjects is in progress in `stk`.
Destroying(stk) ==
    stk # <<>> /\ stk[Len(stk)].op \in {"DestroyObject", "DestroyAllObjects"}

\* C24: a step in which a Create* call, DestroyObject or DestroyAllObjects
\* returns, and every step of a DestroyObject or DestroyAllObjects call in
\* progress, leaves LoadedObjects, LoadedSoftObjects and LoadedSoftClasses
\* as they were; a step of LoadSynchronous, of RequestAsyncLoad, of a
\* completion closure, of UnloadObject, of UnloadClass or of
\* UnloadAllObjects leaves CreatedObjects as it was.
C24_CategoriesFramedApart ==
    [][/\ ret'.op \in CreateOps \cup DestroyOps
             => UNCHANGED <<LoadedObjects, LoadedSoftObjects, LoadedSoftClasses>>
       /\ (Destroying(stack) \/ Destroying(stack'))
             => UNCHANGED <<LoadedObjects, LoadedSoftObjects, LoadedSoftClasses>>
       /\ ret'.op \in LoadedOps => UNCHANGED CreatedObjects]_vars

\* DestroyAllObjects has returned after tearing down a member while the
\* registry holds a loaded object and a loaded class.
C24_Witness ==
    /\ ret.op = "DestroyAllObjects"
    /\ ret.arg # {}
    /\ CreatedObjects = {}
    /\ LoadedSoftObjects # {}
    /\ LoadedSoftClasses # {}
    /\ LoadedObjects # {}

=============================================================================
